---- MODULE Spec2Model ----
(***************************************************************************)
(* Model of pkg/outputs/net_output.go (cb-event-forwarder): the NetOutput  *)
(* sink, its reconnection state machine and its control loop.              *)
(*                                                                         *)
(* Strings are sequences of one-character strings, so that SplitN,         *)
(* HasPrefix and the "\r\n" framing are computed as the code computes      *)
(* them.  Time is counted in whole seconds.                                *)
(***************************************************************************)
EXTENDS Integers, Sequences, FiniteSets, TLC

\* ------------------------------------------------------------------ bounds

\* Messages the producer puts on the message channel.
MaxMsgs == 2
\* Last instant of the clock.
MaxTime == 7
\* Initialize calls made from outside the control loop.
MaxInits == 2

\* The sinks of Spec, and the sinks of SpecFan, which share a message channel.
SinkIds == {1}
FanSinkIds == {1, 2}

\* ------------------------------------------------------- program constants

\* time.Duration(5 * time.Second): the fixed backoff.
ReconnectDelay == 5
\* time.NewTicker(1 * time.Second): the periodic check.
RefreshPeriod == 1

\* ------------------------------------------------------------------ strings

CRLF == <<"\r", "\n">>
TcpPrefix == <<"t", "c", "p">>

TcpSpec == <<"t", "c", "p", ":", "h", ":", "1">>
UdpSpec == <<"u", "d", "p", ":", "h", ":", "1">>

\* A specification without a colon.
NoColonSpec == <<"t", "c", "p">>

\* The connection specifications given to Initialize.
ConnSpecs == {TcpSpec, UdpSpec, NoColonSpec}

\* The messages, in the order the producer sends them.
MsgOf(i) == <<"m", CASE i = 1 -> "1" [] i = 2 -> "2" [] i = 3 -> "3" [] i = 4 -> "4" [] OTHER -> "x">>

\* strings.Index(str, c) for a one-character c, 1-based; 0 when c is absent.
IndexOf(str, c) ==
    IF \E i \in 1..Len(str) : str[i] = c
    THEN CHOOSE i \in 1..Len(str) : str[i] = c /\ \A j \in 1..(i - 1) : str[j] # c
    ELSE 0

\* strings.SplitN(str, sep, 2): at most two parts, cut at the first sep.
SplitN2(str, sep) ==
    LET i == IndexOf(str, sep)
    IN  IF i = 0 THEN <<str>>
        ELSE <<SubSeq(str, 1, i - 1), SubSeq(str, i + 1, Len(str))>>

\* strings.HasPrefix(str, prefix).
HasPrefix(str, prefix) ==
    /\ Len(str) >= Len(prefix)
    /\ SubSeq(str, 1, Len(prefix)) = prefix

\* os.Signal values the signals channel carries.
SIGTERM == "SIGTERM"
SIGINT == "SIGINT"
SIGHUP == "SIGHUP"
Signals == {SIGTERM, SIGINT, SIGHUP}

\* ------------------------------------------------------------ the NetOutput

\* &NetOutput{Config: cfg}: every other field has its zero value.
NewNetOutputfromConfig(dryRun) ==
    [ netConn |-> <<>>,
      remoteHostname |-> <<>>,
      protocolName |-> <<>>,
      outputSocket |-> "nil",
      addNewline |-> FALSE,
      connectTime |-> 0,
      reconnectTime |-> 0,
      connected |-> FALSE,
      droppedEventCount |-> 0,
      droppedEventSinceConnection |-> 0,
      DryRun |-> dryRun ]

\* What an operation on a sink gives: the sink after it, whether it returned
\* an error, whether it panicked, the dials it made and the payloads it wrote.
Outcome(o, err, panic, dials, wrote) ==
    [o |-> o, err |-> err, panic |-> panic, dials |-> dials, wrote |-> wrote]

\* markConnected that leaves droppedEventSinceConnection behind.
markConnected_NoReset(o, t) ==
    [o EXCEPT !.connectTime = t, !.connected = TRUE]

\* markConnected that starts the drop counter again at every connection.
markConnected_ResetsCount(o, t) ==
    [o EXCEPT !.connectTime = t, !.connected = TRUE,
              !.droppedEventCount = 0, !.droppedEventSinceConnection = 0]

markConnected(o, t) ==
    LET c == [o EXCEPT !.connectTime = t, !.connected = TRUE]
    IN  IF c.droppedEventCount # c.droppedEventSinceConnection
        THEN [c EXCEPT !.droppedEventSinceConnection = c.droppedEventCount]
        ELSE c

\* closeAndScheduleReconnection that closes the socket and forgets the flag.
closeAndScheduleReconnection_StaysConnected(o, t) ==
    LET c == IF o.connected THEN [o EXCEPT !.outputSocket = "closed"] ELSE o
    IN  [c EXCEPT !.reconnectTime = t + ReconnectDelay]

closeAndScheduleReconnection(o, t) ==
    LET c == IF o.connected
             THEN [o EXCEPT !.outputSocket = "closed", !.connected = FALSE]
             ELSE o
    IN  [c EXCEPT !.reconnectTime = t + ReconnectDelay]

\* Initialize(netConn) at time t, the dial succeeding iff dialOK.
Initialize(o, nc, dialOK, t) ==
    IF o.connected /\ o.outputSocket = "nil"
    THEN \* o.outputSocket.Close() on a nil net.Conn
         Outcome(o, FALSE, TRUE, 0, <<>>)
    ELSE
    LET c1 == IF o.connected THEN [o EXCEPT !.outputSocket = "closed"] ELSE o
        c2 == [c1 EXCEPT !.netConn = nc]
        connSpecification == SplitN2(nc, ":")
    IN  IF Len(connSpecification) < 2
        THEN \* connSpecification[1]: index out of range
             Outcome([c2 EXCEPT !.protocolName = connSpecification[1]],
                     FALSE, TRUE, 0, <<>>)
        ELSE
        LET c3 == [c2 EXCEPT !.protocolName = connSpecification[1],
                             !.remoteHostname = connSpecification[2]]
            c4 == IF HasPrefix(c3.protocolName, TcpPrefix)
                  THEN [c3 EXCEPT !.addNewline = TRUE]
                  ELSE c3
        IN  IF dialOK
            THEN Outcome(markConnected([c4 EXCEPT !.outputSocket = "open"], t),
                         FALSE, FALSE, 1, <<>>)
            ELSE Outcome([c4 EXCEPT !.outputSocket = "nil"], TRUE, FALSE, 1, <<>>)

\* output that drops without counting.
output_DropUncounted(o, m, writeOK, t) ==
    LET payload == IF o.addNewline THEN m \o CRLF ELSE m
    IN  IF ~o.connected
        THEN Outcome(o, FALSE, FALSE, 0, <<>>)
        ELSE IF o.outputSocket = "nil"
        THEN Outcome(o, FALSE, TRUE, 0, <<>>)
        ELSE IF writeOK /\ o.outputSocket = "open"
        THEN Outcome(o, FALSE, FALSE, 0, <<payload>>)
        ELSE Outcome(closeAndScheduleReconnection(o, t), TRUE, FALSE, 0, <<>>)

\* output(m) at time t, the write succeeding iff writeOK.
\* output that, in a dry run, leaves the socket as it is after a failed write.
output_DryRunKeepsSocket(o, m, writeOK, t) ==
    LET payload == IF o.addNewline THEN m \o CRLF ELSE m
    IN  IF ~o.connected
        THEN Outcome([o EXCEPT !.droppedEventCount = @ + 1], FALSE, FALSE, 0, <<>>)
        ELSE IF o.outputSocket = "nil"
        THEN Outcome(o, FALSE, TRUE, 0, <<>>)
        ELSE IF writeOK /\ o.outputSocket = "open"
        THEN Outcome(o, FALSE, FALSE, 0, <<payload>>)
        ELSE Outcome(IF o.DryRun THEN o ELSE closeAndScheduleReconnection(o, t),
                     TRUE, FALSE, 0, <<>>)

output(o, m, writeOK, t) ==
    LET payload == IF o.addNewline THEN m \o CRLF ELSE m
    IN  IF ~o.connected
        THEN Outcome([o EXCEPT !.droppedEventCount = @ + 1], FALSE, FALSE, 0, <<>>)
        ELSE IF o.outputSocket = "nil"
        THEN \* o.outputSocket.Write on a nil net.Conn
             Outcome(o, FALSE, TRUE, 0, <<>>)
        ELSE IF writeOK /\ o.outputSocket = "open"
        THEN Outcome(o, FALSE, FALSE, 0, <<payload>>)
        ELSE Outcome(closeAndScheduleReconnection(o, t), TRUE, FALSE, 0, <<>>)

\* A periodic check that does not schedule the next attempt after a failed one.
refreshTick_NoRearm(o, dialOK, t) ==
    IF ~o.connected /\ t > o.reconnectTime
    THEN LET r == Initialize(o, o.netConn, dialOK, t)
         IN  Outcome(r.o, FALSE, r.panic, r.dials, <<>>)
    ELSE Outcome(o, FALSE, FALSE, 0, <<>>)

\* A periodic check that dials a Disconnected sink without waiting for
\* reconnectTime.
refreshTick_IgnoresBackoff(o, dialOK, t) ==
    IF ~o.connected
    THEN LET r == Initialize(o, o.netConn, dialOK, t)
         IN  IF r.err
             THEN Outcome(closeAndScheduleReconnection(r.o, t), FALSE, r.panic,
                          r.dials, <<>>)
             ELSE Outcome(r.o, FALSE, r.panic, r.dials, <<>>)
    ELSE Outcome(o, FALSE, FALSE, 0, <<>>)

\* The refreshTicker.C case of the control loop.
refreshTick(o, dialOK, t) ==
    IF ~o.connected /\ t > o.reconnectTime
    THEN LET r == Initialize(o, o.netConn, dialOK, t)
         IN  IF r.err
             THEN Outcome(closeAndScheduleReconnection(r.o, t), FALSE, r.panic,
                          r.dials, <<>>)
             ELSE Outcome(r.o, FALSE, r.panic, r.dials, <<>>)
    ELSE Outcome(o, FALSE, FALSE, 0, <<>>)

\* ---------------------------------------------------------------- the state

VARIABLES
    sink,        \* sink[s]: the NetOutput s
    pc,          \* pc[s]: "idle" (no loop), "running", "exited" or "panicked"
    nextTick,    \* nextTick[s]: when refreshTicker of s fires next
    messages,    \* the message channel the loops share
    signals,     \* signals[s]: the signals channel given to Go (capacity 1)
    exitCond,    \* exitCond[s]: exitCond.Signal() calls made by the loop of s
    now,         \* time.Now()
    crashed,     \* the process died of a panic
    wire,        \* wire[s]: the payloads s wrote to its transport, in order
    received,    \* received[s]: the messages the loop of s took, in order
    failed,      \* failed[s]: the messages whose Write returned an error
    errlog,      \* errlog[s]: the log.Errorf calls the loop of s has made
    produced,    \* messages the producer has sent so far
    inits,       \* Initialize calls made from outside the loops so far
    last,        \* the last operation and what it returned
    mu,          \* the sink's sync.RWMutex: its writer and its readers
    tpc,         \* tpc[t]: where thread t is in the call it is making
    local,       \* local[t]: the locals of thread t
    stats,       \* the NetStatistics value Statistics() is building
    seen         \* the states the sink was in while Statistics() ran

vars == <<sink, pc, nextTick, messages, signals, exitCond, now, crashed,
          wire, received, failed, errlog, produced, inits, last,
          mu, tpc, local, stats, seen>>

\* The state of SpecConc, where calls interleave one memory access at a time.
concVars == <<mu, tpc, local, stats, seen>>

Sinks == DOMAIN sink

\* The threads of SpecConc: a caller of Initialize, the control loop, and a
\* caller of Statistics.
Threads == {"init", "loop", "stat"}

NoOp == [op |-> "none", s |-> 0, err |-> FALSE, dials |-> 0]
Op(name, s, err, dials) ==
    [op |-> name, s |-> s, err |-> err, dials |-> dials]

InitOver(S) ==
    /\ sink \in [S -> {NewNetOutputfromConfig(d) : d \in {FALSE}}]
    /\ pc = [s \in S |-> "idle"]
    /\ nextTick = [s \in S |-> 0]
    /\ messages = <<>>
    /\ signals = [s \in S |-> <<>>]
    /\ exitCond = [s \in S |-> 0]
    /\ now = 1
    /\ crashed = FALSE
    /\ wire = [s \in S |-> <<>>]
    /\ received = [s \in S |-> <<>>]
    /\ failed = [s \in S |-> {}]
    /\ errlog = [s \in S |-> 0]
    /\ produced = 0
    /\ inits = 0
    /\ last = NoOp
    /\ mu = [writer |-> "none", readers |-> {}]
    /\ tpc = [t \in Threads |-> "idle"]
    /\ local = [nc |-> <<>>, m |-> <<>>, payload |-> <<>>]
    /\ stats = <<>>
    /\ seen = {}

Init == InitOver(SinkIds)

\* --------------------------------------------------------------- the actions

\* A caller outside the control loop calls Initialize(nc) on sink s.
CallInitialize(s, nc) ==
    /\ ~crashed
    /\ inits < MaxInits
    /\ \E dialOK \in BOOLEAN :
         LET r == Initialize(sink[s], nc, dialOK, now)
         IN  /\ sink' = [sink EXCEPT ![s] = r.o]
             /\ crashed' = r.panic
             /\ last' = Op("Initialize", s, r.err, r.dials)
    /\ inits' = inits + 1
    /\ UNCHANGED <<pc, nextTick, messages, signals, exitCond, now, wire, received, failed, errlog, produced>>
    /\ UNCHANGED concVars

\* A Go that starts the loop whatever the socket is.
Go_AlwaysStarts(s) ==
    /\ ~crashed
    /\ pc[s] = "idle"
    /\ last' = Op("Go", s, FALSE, 0)
    /\ pc' = [pc EXCEPT ![s] = "running"]
    /\ nextTick' = [nextTick EXCEPT ![s] = now + RefreshPeriod]
    /\ UNCHANGED <<sink, messages, signals, exitCond, now, crashed,
                   wire, received, failed, errlog, produced, inits>>
    /\ UNCHANGED concVars

\* Go(messages, signals, exitCond) on sink s.
Go(s) ==
    /\ ~crashed
    /\ pc[s] = "idle"
    /\ IF sink[s].outputSocket = "nil"
       THEN /\ last' = Op("Go", s, TRUE, 0)
            /\ UNCHANGED <<pc, nextTick>>
       ELSE /\ last' = Op("Go", s, FALSE, 0)
            /\ pc' = [pc EXCEPT ![s] = "running"]
            /\ nextTick' = [nextTick EXCEPT ![s] = now + RefreshPeriod]
    /\ UNCHANGED <<sink, messages, signals, exitCond, now, crashed,
                   wire, received, failed, errlog, produced, inits>>
    /\ UNCHANGED concVars

\* The loop's goroutine after a handler: a panic runs the deferred
\* refreshTicker.Stop() and exitCond.Signal() and then ends the process.
Unwind(s, panic) ==
    IF panic
    THEN /\ pc' = [pc EXCEPT ![s] = "panicked"]
         /\ exitCond' = [exitCond EXCEPT ![s] = @ + 1]
         /\ nextTick' = [nextTick EXCEPT ![s] = 0]
         /\ crashed' = TRUE
    ELSE UNCHANGED <<pc, exitCond, nextTick, crashed>>

\* A loop that goes on taking messages after it has exited.
LoopMessage_AfterExit(s) ==
    /\ ~crashed
    /\ pc[s] \in {"running", "exited"}
    /\ messages # <<>>
    /\ \E writeOK \in BOOLEAN :
         LET m == Head(messages)
             r == output(sink[s], m, writeOK, now)
         IN  /\ sink' = [sink EXCEPT ![s] = r.o]
             /\ wire' = [wire EXCEPT ![s] = @ \o r.wrote]
             /\ received' = [received EXCEPT ![s] = Append(@, m)]
             /\ failed' = [failed EXCEPT ![s] = IF r.err THEN @ \cup {m} ELSE @]
             /\ errlog' = [errlog EXCEPT ![s] =
                            IF r.err /\ ~sink[s].DryRun THEN @ + 1 ELSE @]
             /\ last' = Op("output", s, r.err, r.dials)
             /\ Unwind(s, r.panic)
    /\ messages' = Tail(messages)
    /\ UNCHANGED <<signals, now, produced, inits>>
    /\ UNCHANGED concVars

\* A loop that reads the head of the channel and leaves it there.
LoopMessage_Peek(s) ==
    /\ ~crashed
    /\ pc[s] = "running"
    /\ messages # <<>>
    /\ \E writeOK \in BOOLEAN :
         LET m == Head(messages)
             r == output(sink[s], m, writeOK, now)
         IN  /\ sink' = [sink EXCEPT ![s] = r.o]
             /\ wire' = [wire EXCEPT ![s] = @ \o r.wrote]
             /\ received' = [received EXCEPT ![s] = Append(@, m)]
             /\ failed' = [failed EXCEPT ![s] = IF r.err THEN @ \cup {m} ELSE @]
             /\ errlog' = [errlog EXCEPT ![s] =
                            IF r.err /\ ~sink[s].DryRun THEN @ + 1 ELSE @]
             /\ last' = Op("output", s, r.err, r.dials)
             /\ Unwind(s, r.panic)
    /\ UNCHANGED <<messages, signals, now, produced, inits>>
    /\ UNCHANGED concVars

\* case message := <-messages
LoopMessage(s) ==
    /\ ~crashed
    /\ pc[s] = "running"
    /\ messages # <<>>
    /\ \E writeOK \in BOOLEAN :
         LET m == Head(messages)
             r == output(sink[s], m, writeOK, now)
         IN  /\ sink' = [sink EXCEPT ![s] = r.o]
             /\ wire' = [wire EXCEPT ![s] = @ \o r.wrote]
             /\ received' = [received EXCEPT ![s] = Append(@, m)]
             /\ failed' = [failed EXCEPT ![s] = IF r.err THEN @ \cup {m} ELSE @]
             /\ errlog' = [errlog EXCEPT ![s] =
                            IF r.err /\ ~sink[s].DryRun THEN @ + 1 ELSE @]
             /\ last' = Op("output", s, r.err, r.dials)
             /\ Unwind(s, r.panic)
    /\ messages' = Tail(messages)
    /\ UNCHANGED <<signals, now, produced, inits>>
    /\ UNCHANGED concVars

\* case <-refreshTicker.C
LoopTick(s) ==
    /\ ~crashed
    /\ pc[s] = "running"
    /\ now >= nextTick[s]
    /\ \E dialOK \in BOOLEAN :
         LET r == refreshTick(sink[s], dialOK, now)
         IN  /\ sink' = [sink EXCEPT ![s] = r.o]
             /\ last' = Op("tick", s, r.err, r.dials)
             /\ IF r.panic
                THEN Unwind(s, TRUE)
                ELSE /\ nextTick' = [nextTick EXCEPT ![s] = @ + RefreshPeriod]
                     /\ UNCHANGED <<pc, exitCond, crashed>>
    /\ UNCHANGED <<messages, signals, now, wire, received, failed, errlog,
                   produced, inits>>
    /\ UNCHANGED concVars

\* A loop that returns on a termination signal without exitCond.Signal().
LoopSignal_NoCompletion(s) ==
    /\ ~crashed
    /\ pc[s] = "running"
    /\ signals[s] # <<>>
    /\ LET signal == Head(signals[s])
       IN  IF signal \in {SIGTERM, SIGINT}
           THEN /\ pc' = [pc EXCEPT ![s] = "exited"]
                /\ nextTick' = [nextTick EXCEPT ![s] = 0]
                /\ UNCHANGED exitCond
           ELSE UNCHANGED <<pc, exitCond, nextTick>>
    /\ signals' = [signals EXCEPT ![s] = Tail(@)]
    /\ last' = Op("signal", s, FALSE, 0)
    /\ UNCHANGED <<sink, messages, now, crashed, wire, received,
                   failed, errlog, produced, inits>>
    /\ UNCHANGED concVars

\* A loop that returns on whatever signal it receives.
LoopSignal_ExitsOnAny(s) ==
    /\ ~crashed
    /\ pc[s] = "running"
    /\ signals[s] # <<>>
    /\ pc' = [pc EXCEPT ![s] = "exited"]
    /\ exitCond' = [exitCond EXCEPT ![s] = @ + 1]
    /\ nextTick' = [nextTick EXCEPT ![s] = 0]
    /\ signals' = [signals EXCEPT ![s] = Tail(@)]
    /\ last' = Op("signal", s, FALSE, 0)
    /\ UNCHANGED <<sink, messages, now, crashed, wire, received,
                   failed, errlog, produced, inits>>
    /\ UNCHANGED concVars

\* case signal := <-signals
LoopSignal(s) ==
    /\ ~crashed
    /\ pc[s] = "running"
    /\ signals[s] # <<>>
    /\ LET signal == Head(signals[s])
       IN  IF signal \in {SIGTERM, SIGINT}
           THEN /\ pc' = [pc EXCEPT ![s] = "exited"]
                /\ exitCond' = [exitCond EXCEPT ![s] = @ + 1]
                /\ nextTick' = [nextTick EXCEPT ![s] = 0]
           ELSE UNCHANGED <<pc, exitCond, nextTick>>
    /\ signals' = [signals EXCEPT ![s] = Tail(@)]
    /\ last' = Op("signal", s, FALSE, 0)
    /\ UNCHANGED <<sink, messages, now, crashed, wire, received,
                   failed, errlog, produced, inits>>
    /\ UNCHANGED concVars

\* The producer sends the next message on the message channel.
Produce ==
    /\ ~crashed
    /\ produced < MaxMsgs
    /\ produced' = produced + 1
    /\ messages' = Append(messages, MsgOf(produced + 1))
    /\ last' = NoOp
    /\ UNCHANGED <<sink, pc, nextTick, signals, exitCond, now, crashed, wire, received, failed, errlog, inits>>
    /\ UNCHANGED concVars

\* The process is sent a signal, which reaches the signals channel of s.
Notify(s, sig) ==
    /\ ~crashed
    /\ pc[s] # "exited"
    /\ signals[s] = <<>>
    /\ signals' = [signals EXCEPT ![s] = Append(@, sig)]
    /\ last' = NoOp
    /\ UNCHANGED <<sink, pc, nextTick, messages, exitCond, now, crashed, wire, received, failed, errlog, produced, inits>>
    /\ UNCHANGED concVars

\* A second passes.  A running loop takes its tick when it is due: the clock
\* does not pass a tick that is still to be handled.
Second ==
    /\ ~crashed
    /\ now < MaxTime
    /\ \A s \in Sinks : pc[s] = "running" => now < nextTick[s]
    /\ now' = now + 1
    /\ last' = NoOp
    /\ UNCHANGED <<sink, pc, nextTick, messages, signals, exitCond,
                   crashed, wire, received, failed, errlog, produced, inits>>
    /\ UNCHANGED concVars

\* The sink, its control loop and the clock.
Next ==
    \/ \E s \in Sinks, nc \in ConnSpecs : CallInitialize(s, nc)
    \/ \E s \in Sinks : Go(s)
    \/ \E s \in Sinks : LoopMessage(s)
    \/ \E s \in Sinks : LoopTick(s)
    \/ Produce
    \/ Second

Spec == Init /\ [][Next]_vars

\* The sink, its control loop and the signals sent to it, within one second:
\* no tick is due.
NextShutdown ==
    \/ \E s \in Sinks, nc \in ConnSpecs : CallInitialize(s, nc)
    \/ \E s \in Sinks : Go(s)
    \/ \E s \in Sinks : LoopMessage(s)
    \/ \E s \in Sinks : LoopSignal(s)
    \/ Produce
    \/ \E s \in Sinks, sig \in Signals : Notify(s, sig)

SpecShutdown == Init /\ [][NextShutdown]_vars

\* Go's select takes a case that stays ready: the signals case is not
\* passed over for ever.
FairShutdown == SpecShutdown /\ \A s \in SinkIds : WF_vars(LoopSignal(s))

\* All of it together.
NextAll == Next \/ NextShutdown

SpecAll == Init /\ [][NextAll]_vars

\* Several sinks whose loops read the same message channel.
InitFan == InitOver(FanSinkIds)

NextFan ==
    \/ \E s \in Sinks, nc \in ConnSpecs : CallInitialize(s, nc)
    \/ \E s \in Sinks : Go(s)
    \/ \E s \in Sinks : LoopMessage(s)
    \/ Produce

SpecFan == InitFan /\ [][NextFan]_vars

\* ------------------------------------------ two sinks given the same inputs

\* The operations below act on both sinks at once; last, which tells of one
\* operation on one sink, is not kept.

\* Two sinks whose configurations differ in DryRun only.
InitPair ==
    /\ sink = [s \in FanSinkIds |-> NewNetOutputfromConfig(s = 2)]
    /\ pc = [s \in FanSinkIds |-> "idle"]
    /\ nextTick = [s \in FanSinkIds |-> 0]
    /\ messages = <<>>
    /\ signals = [s \in FanSinkIds |-> <<>>]
    /\ exitCond = [s \in FanSinkIds |-> 0]
    /\ now = 1
    /\ crashed = FALSE
    /\ wire = [s \in FanSinkIds |-> <<>>]
    /\ received = [s \in FanSinkIds |-> <<>>]
    /\ failed = [s \in FanSinkIds |-> {}]
    /\ errlog = [s \in FanSinkIds |-> 0]
    /\ produced = 0
    /\ inits = 0
    /\ last = NoOp
    /\ mu = [writer |-> "none", readers |-> {}]
    /\ tpc = [t \in Threads |-> "idle"]
    /\ local = [nc |-> <<>>, m |-> <<>>, payload |-> <<>>]
    /\ stats = <<>>
    /\ seen = {}

\* The sinks whose loops run, and what a panic of some of them leaves.
Running == {s \in Sinks : pc[s] = "running"}

PairUnwind(P) ==
    /\ pc' = [s \in Sinks |-> IF s \in P THEN "panicked" ELSE pc[s]]
    /\ exitCond' = [s \in Sinks |-> IF s \in P THEN exitCond[s] + 1 ELSE exitCond[s]]
    /\ crashed' = (P # {})

\* Initialize(nc) is called on both sinks, and their dials fare alike.
PairInitialize(nc) ==
    /\ ~crashed
    /\ inits < MaxInits
    /\ \E dialOK \in BOOLEAN :
         LET r == [s \in Sinks |-> Initialize(sink[s], nc, dialOK, now)]
         IN  /\ sink' = [s \in Sinks |-> r[s].o]
             /\ crashed' = \E s \in Sinks : r[s].panic
             /\ last' = NoOp
    /\ inits' = inits + 1
    /\ UNCHANGED <<pc, nextTick, messages, signals, exitCond, now, wire,
                   received, failed, errlog, produced>>
    /\ UNCHANGED concVars

\* Go is called on both sinks.
PairGo ==
    /\ ~crashed
    /\ \A s \in Sinks : pc[s] = "idle"
    /\ LET started == {s \in Sinks : sink[s].outputSocket # "nil"}
       IN  /\ pc' = [s \in Sinks |-> IF s \in started THEN "running" ELSE pc[s]]
           /\ nextTick' = [s \in Sinks |-> IF s \in started
                                           THEN now + RefreshPeriod
                                           ELSE nextTick[s]]
           /\ last' = NoOp
    /\ UNCHANGED <<sink, messages, signals, exitCond, now, crashed,
                   wire, received, failed, errlog, produced, inits>>
    /\ UNCHANGED concVars

\* The same message reaches both loops, and their writes fare alike.
PairMessage ==
    /\ ~crashed
    /\ Running # {}
    /\ messages # <<>>
    /\ \E writeOK \in BOOLEAN :
         LET m == Head(messages)
             r == [s \in Running |-> output(sink[s], m, writeOK, now)]
             P == {s \in Running : r[s].panic}
         IN  /\ sink' = [s \in Sinks |-> IF s \in Running THEN r[s].o ELSE sink[s]]
             /\ wire' = [s \in Sinks |->
                            IF s \in Running THEN wire[s] \o r[s].wrote ELSE wire[s]]
             /\ received' = [s \in Sinks |->
                            IF s \in Running THEN Append(received[s], m)
                            ELSE received[s]]
             /\ failed' = [s \in Sinks |->
                            IF s \in Running /\ r[s].err THEN failed[s] \cup {m}
                            ELSE failed[s]]
             /\ errlog' = [s \in Sinks |->
                            IF s \in Running /\ r[s].err /\ ~sink[s].DryRun
                            THEN errlog[s] + 1 ELSE errlog[s]]
             /\ last' = NoOp
             /\ PairUnwind(P)
             /\ nextTick' = [s \in Sinks |-> IF s \in P THEN 0 ELSE nextTick[s]]
    /\ messages' = Tail(messages)
    /\ UNCHANGED <<signals, now, produced, inits>>
    /\ UNCHANGED concVars

\* The tickers of both loops fire, and their dials fare alike.
PairTick ==
    /\ ~crashed
    /\ LET T == {s \in Running : now >= nextTick[s]}
       IN  /\ T # {}
           /\ \E dialOK \in BOOLEAN :
                LET r == [s \in T |-> refreshTick(sink[s], dialOK, now)]
                    P == {s \in T : r[s].panic}
                IN  /\ sink' = [s \in Sinks |-> IF s \in T THEN r[s].o ELSE sink[s]]
                    /\ last' = NoOp
                    /\ PairUnwind(P)
                    /\ nextTick' = [s \in Sinks |->
                                      IF s \in P THEN 0
                                      ELSE IF s \in T THEN nextTick[s] + RefreshPeriod
                                      ELSE nextTick[s]]
    /\ UNCHANGED <<messages, signals, now, wire, received, failed, errlog,
                   produced, inits>>
    /\ UNCHANGED concVars

\* The same signal reaches the signals channels of both sinks.
PairNotify(sig) ==
    /\ ~crashed
    /\ \A s \in Sinks : pc[s] # "exited" /\ signals[s] = <<>>
    /\ signals' = [s \in Sinks |-> Append(signals[s], sig)]
    /\ last' = NoOp
    /\ UNCHANGED <<sink, pc, nextTick, messages, exitCond, now, crashed, wire,
                   received, failed, errlog, produced, inits>>
    /\ UNCHANGED concVars

\* Both loops receive the signal on their channels.
PairSignal ==
    /\ ~crashed
    /\ LET G == {s \in Running : signals[s] # <<>>}
           X == {s \in G : Head(signals[s]) \in {SIGTERM, SIGINT}}
       IN  /\ G # {}
           /\ pc' = [s \in Sinks |-> IF s \in X THEN "exited" ELSE pc[s]]
           /\ exitCond' = [s \in Sinks |->
                             IF s \in X THEN exitCond[s] + 1 ELSE exitCond[s]]
           /\ nextTick' = [s \in Sinks |-> IF s \in X THEN 0 ELSE nextTick[s]]
           /\ signals' = [s \in Sinks |->
                             IF s \in G THEN Tail(signals[s]) ELSE signals[s]]
    /\ last' = NoOp
    /\ UNCHANGED <<sink, messages, now, crashed, wire, received,
                   failed, errlog, produced, inits>>
    /\ UNCHANGED concVars

NextPair ==
    \/ \E nc \in ConnSpecs : PairInitialize(nc)
    \/ PairGo
    \/ PairMessage
    \/ PairTick
    \/ \E sig \in Signals : PairNotify(sig)
    \/ PairSignal
    \/ Produce
    \/ Second

SpecPair == InitPair /\ [][NextPair]_vars

\* ------------------------------------------- calls interleaved step by step

\* The sink of SpecConc.
TheSink == CHOOSE s \in SinkIds : TRUE

\* What Statistics() copies, in the order it copies it: connectTime,
\* protocolName, remoteHostname, droppedEventCount, connected.
View(o) ==
    <<o.connectTime, o.protocolName, o.remoteHostname, o.droppedEventCount,
      o.connected>>

\* The sink is Connected to a tcp target and its loop runs.
InitConc ==
    /\ sink = [s \in SinkIds |->
                Initialize(NewNetOutputfromConfig(FALSE), TcpSpec, TRUE, 1).o]
    /\ pc = [s \in SinkIds |-> "running"]
    /\ nextTick = [s \in SinkIds |-> 1 + RefreshPeriod]
    /\ messages = <<>>
    /\ signals = [s \in SinkIds |-> <<>>]
    /\ exitCond = [s \in SinkIds |-> 0]
    /\ now = 1
    /\ crashed = FALSE
    /\ wire = [s \in SinkIds |-> <<>>]
    /\ received = [s \in SinkIds |-> <<>>]
    /\ failed = [s \in SinkIds |-> {}]
    /\ errlog = [s \in SinkIds |-> 0]
    /\ produced = 0
    /\ inits = 1
    /\ last = NoOp
    /\ mu = [writer |-> "none", readers |-> {}]
    /\ tpc = [t \in Threads |-> "idle"]
    /\ local = [nc |-> <<>>, m |-> <<>>, payload |-> <<>>]
    /\ stats = <<>>
    /\ seen = {}

\* While Statistics() runs, every state the sink is in with no writer inside
\* the lock is a state the call may report.
Observe ==
    seen' = IF tpc'["stat"] \in {"rlock", "read", "runlock"} /\ mu'.writer = "none"
            THEN seen \cup {View(sink'[TheSink])}
            ELSE seen

\* Thread t moves from one place of its call to the next.
Goto(t, from, to) ==
    /\ ~crashed
    /\ tpc[t] = from
    /\ tpc' = [tpc EXCEPT ![t] = to]

\* o.Lock()
Lock(t) ==
    /\ mu.writer = "none"
    /\ mu.readers = {}
    /\ mu' = [mu EXCEPT !.writer = t]

\* o.Unlock()
Unlock(t) ==
    mu' = [mu EXCEPT !.writer = "none"]

\* What a step of SpecConc leaves alone besides the sink, the lock and the
\* threads.
ConcFrame ==
    UNCHANGED <<pc, nextTick, signals, exitCond, now, produced, last>>

\* ---- Statistics()

StatCall ==
    /\ ~crashed
    /\ tpc["stat"] \in {"idle", "done"}
    /\ tpc' = [tpc EXCEPT !["stat"] = "rlock"]
    /\ stats' = <<>>
    /\ seen' = IF mu.writer = "none" THEN {View(sink[TheSink])} ELSE {}
    /\ ConcFrame
    /\ UNCHANGED <<sink, mu, local, messages, crashed, wire, received, failed, errlog, inits>>

\* A Statistics() that does not take the lock.
StatRLock_NoLock ==
    /\ Goto("stat", "rlock", "read")
    /\ ConcFrame
    /\ UNCHANGED <<sink, mu, local, stats, seen, messages, crashed, wire,
                   received, failed, errlog, inits>>

\* o.RLock()
StatRLock ==
    /\ Goto("stat", "rlock", "read")
    /\ mu.writer = "none"
    /\ mu' = [mu EXCEPT !.readers = @ \cup {"stat"}]
    /\ ConcFrame
    /\ UNCHANGED <<sink, local, stats, seen, messages, crashed, wire,
                   received, failed, errlog, inits>>

\* One field of the NetStatistics literal is read from the sink.
StatRead ==
    /\ Goto("stat", "read", IF Len(stats) = 4 THEN "runlock" ELSE "read")
    /\ stats' = Append(stats, View(sink[TheSink])[Len(stats) + 1])
    /\ ConcFrame
    /\ UNCHANGED <<sink, mu, local, seen, messages, crashed, wire, received,
                   failed, errlog, inits>>

\* defer o.RUnlock(), and the return of the snapshot
StatRUnlock ==
    /\ Goto("stat", "runlock", "done")
    /\ mu' = [mu EXCEPT !.readers = @ \ {"stat"}]
    /\ ConcFrame
    /\ UNCHANGED <<sink, local, stats, seen, messages, crashed, wire,
                   received, failed, errlog, inits>>

\* ---- Initialize(nc), called beside the running loop

InitCall(nc) ==
    /\ inits < MaxInits
    /\ Goto("init", "idle", "lock")
    /\ local' = [local EXCEPT !.nc = nc]
    /\ inits' = inits + 1
    /\ ConcFrame
    /\ UNCHANGED <<sink, mu, stats, seen, messages, crashed, wire, received,
                   failed, errlog>>

InitLock ==
    /\ Goto("init", "lock", "close")
    /\ Lock("init")
    /\ ConcFrame
    /\ UNCHANGED <<sink, local, stats, messages, crashed, wire, received,
                   failed, errlog, inits>>
    /\ Observe

\* One write of Initialize to the sink, made inside the lock.
InitWrite(from, to, o) ==
    /\ Goto("init", from, to)
    /\ sink' = [sink EXCEPT ![TheSink] = o]
    /\ ConcFrame
    /\ UNCHANGED <<mu, local, stats, messages, crashed, wire, received,
                   failed, errlog, inits>>
    /\ Observe

\* A panic of the calling goroutine ends the process.
Panic(t) ==
    /\ ~crashed
    /\ crashed' = TRUE
    /\ ConcFrame
    /\ UNCHANGED <<sink, mu, tpc, local, stats, seen, messages, wire,
                   received, failed, errlog, inits>>

\* if o.connected { o.outputSocket.Close() }
InitClose ==
    LET o == sink[TheSink]
    IN  IF o.connected /\ o.outputSocket = "nil"
        THEN tpc["init"] = "close" /\ Panic("init")
        ELSE InitWrite("close", "netConn",
                IF o.connected THEN [o EXCEPT !.outputSocket = "closed"] ELSE o)

\* o.netConn = netConn
InitSetNetConn ==
    InitWrite("netConn", "protocolName",
              [sink[TheSink] EXCEPT !.netConn = local.nc])

\* o.protocolName = connSpecification[0]
InitSetProtocolName ==
    InitWrite("protocolName", "remoteHostname",
              [sink[TheSink] EXCEPT !.protocolName = SplitN2(local.nc, ":")[1]])

\* o.remoteHostname = connSpecification[1]
InitSetRemoteHostname ==
    IF Len(SplitN2(local.nc, ":")) < 2
    THEN tpc["init"] = "remoteHostname" /\ Panic("init")
    ELSE InitWrite("remoteHostname", "addNewline",
              [sink[TheSink] EXCEPT !.remoteHostname = SplitN2(local.nc, ":")[2]])

\* if strings.HasPrefix(o.protocolName, "tcp") { o.addNewline = true }
InitSetAddNewline ==
    LET o == sink[TheSink]
    IN  InitWrite("addNewline", "dial",
              IF HasPrefix(o.protocolName, TcpPrefix)
              THEN [o EXCEPT !.addNewline = TRUE] ELSE o)

\* o.outputSocket, err = net.Dial(o.protocolName, o.remoteHostname)
InitDial ==
    LET o == sink[TheSink]
    IN  \/ InitWrite("dial", "connectTime", [o EXCEPT !.outputSocket = "open"])
        \/ InitWrite("dial", "unlock", [o EXCEPT !.outputSocket = "nil"])

\* o.connectTime = time.Now()
InitMarkConnectTime ==
    InitWrite("connectTime", "connected",
              [sink[TheSink] EXCEPT !.connectTime = now])

\* o.connected = true
InitMarkConnected ==
    InitWrite("connected", "dropped", [sink[TheSink] EXCEPT !.connected = TRUE])

\* o.droppedEventSinceConnection = o.droppedEventCount
InitMarkDropped ==
    LET o == sink[TheSink]
    IN  InitWrite("dropped", "unlock",
              IF o.droppedEventCount # o.droppedEventSinceConnection
              THEN [o EXCEPT !.droppedEventSinceConnection = o.droppedEventCount]
              ELSE o)

\* defer o.Unlock()
InitUnlock ==
    /\ Goto("init", "unlock", "idle")
    /\ Unlock("init")
    /\ ConcFrame
    /\ UNCHANGED <<sink, local, stats, messages, crashed, wire, received,
                   failed, errlog, inits>>
    /\ Observe

\* ---- the loop's output(message)

\* case message := <-messages, and m += "\r\n" after the read of addNewline
OutReceive ==
    /\ Goto("loop", "idle", "connected")
    /\ messages # <<>>
    /\ messages' = Tail(messages)
    /\ received' = [received EXCEPT ![TheSink] = Append(@, Head(messages))]
    /\ local' = [local EXCEPT !.m = Head(messages),
                               !.payload = IF sink[TheSink].addNewline
                                           THEN Head(messages) \o CRLF
                                           ELSE Head(messages)]
    /\ ConcFrame
    /\ UNCHANGED <<sink, mu, stats, seen, crashed, wire, failed, errlog, inits>>

\* if !o.connected, read without the lock
OutConnected ==
    /\ Goto("loop", "connected", IF sink[TheSink].connected THEN "write" ELSE "drop")
    /\ ConcFrame
    /\ UNCHANGED <<sink, mu, local, stats, seen, messages, crashed, wire,
                   received, failed, errlog, inits>>

\* atomic.AddInt64(&o.droppedEventCount, 1)
OutDrop ==
    /\ Goto("loop", "drop", "idle")
    /\ sink' = [sink EXCEPT ![TheSink].droppedEventCount = @ + 1]
    /\ ConcFrame
    /\ UNCHANGED <<mu, local, stats, messages, crashed, wire, received,
                   failed, errlog, inits>>
    /\ Observe

\* _, err := o.outputSocket.Write([]byte(m))
OutWrite ==
    LET o == sink[TheSink]
    IN  IF o.outputSocket = "nil"
        THEN tpc["loop"] = "write" /\ Panic("loop")
        ELSE \E writeOK \in BOOLEAN :
            /\ IF writeOK /\ o.outputSocket = "open"
               THEN /\ Goto("loop", "write", "idle")
                    /\ wire' = [wire EXCEPT ![TheSink] = Append(@, local.payload)]
                    /\ UNCHANGED failed
               ELSE /\ Goto("loop", "write", "csLock")
                    /\ failed' = [failed EXCEPT ![TheSink] = @ \cup {local.m}]
                    /\ UNCHANGED wire
            /\ ConcFrame
            /\ UNCHANGED <<sink, mu, local, stats, seen, messages, crashed,
                           received, errlog, inits>>

\* closeAndScheduleReconnection: o.Lock()
CsLock ==
    /\ Goto("loop", "csLock", "csClose")
    /\ Lock("loop")
    /\ ConcFrame
    /\ UNCHANGED <<sink, local, stats, messages, crashed, wire, received,
                   failed, errlog, inits>>
    /\ Observe

\* One write of closeAndScheduleReconnection to the sink, inside the lock.
CsWrite(from, to, o) ==
    /\ Goto("loop", from, to)
    /\ sink' = [sink EXCEPT ![TheSink] = o]
    /\ ConcFrame
    /\ UNCHANGED <<mu, local, stats, messages, crashed, wire, received,
                   failed, errlog, inits>>
    /\ Observe

\* if o.connected { o.outputSocket.Close() ...
CsClose ==
    LET o == sink[TheSink]
    IN  IF o.connected /\ o.outputSocket = "nil"
        THEN tpc["loop"] = "csClose" /\ Panic("loop")
        ELSE CsWrite("csClose", "csConnected",
                IF o.connected THEN [o EXCEPT !.outputSocket = "closed"] ELSE o)

\* ... o.connected = false }
CsConnected ==
    CsWrite("csConnected", "csReconnectTime",
            [sink[TheSink] EXCEPT !.connected = FALSE])

\* o.reconnectTime = time.Now().Add(time.Duration(5 * time.Second))
CsReconnectTime ==
    CsWrite("csReconnectTime", "csUnlock",
            [sink[TheSink] EXCEPT !.reconnectTime = now + ReconnectDelay])

\* defer o.Unlock(); output returns the error and the loop logs it
CsUnlock ==
    /\ Goto("loop", "csUnlock", "idle")
    /\ Unlock("loop")
    /\ errlog' = [errlog EXCEPT ![TheSink] =
                   IF ~sink[TheSink].DryRun THEN @ + 1 ELSE @]
    /\ ConcFrame
    /\ UNCHANGED <<sink, local, stats, messages, crashed, wire, received,
                   failed, inits>>
    /\ Observe

\* ---- which fields the next step of a thread touches

\* The fields thread t writes in its next step (an atomic add apart).
Writes(t) ==
    CASE t = "init" /\ tpc[t] = "netConn" -> {"netConn"}
      [] t = "init" /\ tpc[t] = "protocolName" -> {"protocolName"}
      [] t = "init" /\ tpc[t] = "remoteHostname" -> {"remoteHostname"}
      [] t = "init" /\ tpc[t] = "addNewline" -> {"addNewline"}
      [] t = "init" /\ tpc[t] = "dial" -> {"outputSocket"}
      [] t = "init" /\ tpc[t] = "connectTime" -> {"connectTime"}
      [] t = "init" /\ tpc[t] = "connected" -> {"connected"}
      [] t = "init" /\ tpc[t] = "dropped" -> {"droppedEventSinceConnection"}
      [] t = "loop" /\ tpc[t] = "csConnected" -> {"connected"}
      [] t = "loop" /\ tpc[t] = "csReconnectTime" -> {"reconnectTime"}
      [] OTHER -> {}

\* The fields thread t reads in its next step while it does not hold the
\* lock: output() reads addNewline, connected and outputSocket so.
UnlockedReads(t) ==
    IF mu.writer = t \/ t \in mu.readers THEN {}
    ELSE CASE t = "loop" /\ tpc[t] = "idle" /\ messages # <<>> -> {"addNewline"}
           [] t = "loop" /\ tpc[t] = "connected" -> {"connected"}
           [] t = "loop" /\ tpc[t] = "write" -> {"outputSocket"}
           [] OTHER -> {}

NextConc ==
    \/ StatCall
    \/ StatRLock
    \/ StatRead
    \/ StatRUnlock
    \/ \E nc \in ConnSpecs : InitCall(nc)
    \/ InitLock
    \/ InitClose
    \/ InitSetNetConn
    \/ InitSetProtocolName
    \/ InitSetRemoteHostname
    \/ InitSetAddNewline
    \/ InitDial
    \/ InitMarkConnectTime
    \/ InitMarkConnected
    \/ InitMarkDropped
    \/ InitUnlock
    \/ OutReceive
    \/ OutConnected
    \/ OutDrop
    \/ OutWrite
    \/ CsLock
    \/ CsClose
    \/ CsConnected
    \/ CsReconnectTime
    \/ CsUnlock
    \/ Produce

SpecConc == InitConc /\ [][NextConc]_vars

\* ------------------------------------------------------------------- claims

\* The step just taken was sink s's output (its loop took a message).
OutputStep(s) == last'.op = "output" /\ last'.s = s
\* The step just taken was sink s's periodic check.
TickStep(s) == last'.op = "tick" /\ last'.s = s
\* The step just taken was sink s's loop receiving a signal.
SignalStep(s) == last'.op = "signal" /\ last'.s = s

\* The dial of the step just taken gave sink s a connection.
DialSucceeded(s) == last'.dials = 1 /\ sink'[s].outputSocket = "open"

\* A termination signal waits on the signals channel of a running loop.
TermAvailable(s) ==
    /\ pc[s] = "running"
    /\ signals[s] # <<>>
    /\ Head(signals[s]) \in {SIGTERM, SIGINT}

\* The message a payload carries: the payload without a trailing CR LF.
Unframed(p) ==
    IF Len(p) >= 2 /\ SubSeq(p, Len(p) - 1, Len(p)) = CRLF
    THEN SubSeq(p, 1, Len(p) - 2)
    ELSE p

\* The networks of net.Dial whose connections are byte streams.
StreamOriented(protocol) ==
    protocol \in { <<"t", "c", "p">>, <<"t", "c", "p", "4">>,
                   <<"t", "c", "p", "6">>, <<"u", "n", "i", "x">> }

\* C1: a message taken while the sink is Disconnected adds exactly 1 to
\* droppedEventCount, writes nothing, returns no error and is kept nowhere:
\* it leaves the channel and the sink changes in its counter only.
C1_DropWhileDisconnected ==
    [][\A s \in Sinks :
        (OutputStep(s) /\ ~sink[s].connected) =>
            /\ sink'[s].droppedEventCount = sink[s].droppedEventCount + 1
            /\ sink'[s] = [sink[s] EXCEPT !.droppedEventCount = @ + 1]
            /\ wire'[s] = wire[s]
            /\ ~last'.err
            /\ ~crashed'
            /\ messages' = Tail(messages)
            /\ Head(messages) \notin failed'[s]]_vars

C1_Witness ==
    \E s \in Sinks :
        /\ last.op = "output" /\ last.s = s /\ ~last.err
        /\ ~sink[s].connected
        /\ sink[s].droppedEventCount = 1
        /\ received[s] = <<MsgOf(1), MsgOf(2)>>
        /\ wire[s] = <<>>

\* C2: every payload a Connected sink writes is the message it took from the
\* head of the channel, appended to what it wrote before, followed by CR LF
\* iff the sink's transport is stream-oriented.
C2_OrderedFraming ==
    [][\A s \in Sinks :
        (OutputStep(s) /\ sink[s].connected /\ ~last'.err /\ ~crashed') =>
            wire'[s] = Append(wire[s],
                IF StreamOriented(sink[s].protocolName)
                THEN Head(messages) \o CRLF
                ELSE Head(messages))]_vars

\* C3: a failed write on a Connected sink leaves it Disconnected with its
\* socket closed and reconnectTime = now + 5 s, writes nothing, and the loop
\* runs on; a message whose write failed is never on the wire.
C3_WriteFailureDisconnects ==
    /\ [][\A s \in Sinks :
            (OutputStep(s) /\ sink[s].connected /\ last'.err) =>
                /\ ~sink'[s].connected
                /\ sink'[s].outputSocket = "closed"
                /\ sink'[s].reconnectTime = now + ReconnectDelay
                /\ wire'[s] = wire[s]
                /\ Head(messages) \in failed'[s]
                /\ messages' = Tail(messages)
                /\ pc'[s] = "running"
                /\ ~crashed']_vars
    /\ [](\A s \in Sinks : \A i \in DOMAIN wire[s] :
            Unframed(wire[s][i]) \notin failed[s])

\* After a failed write the loop has handled the next message.
C3_Witness ==
    \E s \in Sinks :
        /\ failed[s] = {MsgOf(1)}
        /\ received[s] = <<MsgOf(1), MsgOf(2)>>
        /\ sink[s].droppedEventCount = 1
        /\ sink[s].reconnectTime = now + ReconnectDelay
        /\ pc[s] = "running"

\* C4: a periodic check of a Disconnected sink with now past reconnectTime
\* makes exactly one dial; when the dial succeeds the sink is connected,
\* connectTime is now and droppedEventSinceConnection = droppedEventCount.
C4_CheckReconnectsOnce ==
    [][\A s \in Sinks :
        (TickStep(s) /\ ~sink[s].connected /\ now > sink[s].reconnectTime) =>
            /\ last'.dials = 1
            /\ DialSucceeded(s) =>
                /\ sink'[s].connected
                /\ sink'[s].connectTime = now
                /\ sink'[s].droppedEventCount = sink[s].droppedEventCount
                /\ sink'[s].droppedEventSinceConnection
                     = sink'[s].droppedEventCount]_vars

C4_Witness ==
    \E s \in Sinks :
        /\ last.op = "tick" /\ last.s = s /\ last.dials = 1
        /\ sink[s].connected
        /\ sink[s].connectTime = now
        /\ sink[s].droppedEventCount = 1
        /\ sink[s].droppedEventSinceConnection = 1

C6_CompletionOnce ==
    /\ [](\A s \in Sinks :
            exitCond[s] = IF pc[s] \in {"exited", "panicked"} THEN 1 ELSE 0)
    /\ [][\A s \in Sinks :
            (SignalStep(s) /\ TermAvailable(s)) =>
                pc'[s] = "exited" /\ exitCond'[s] = 1]_vars

C6_Witness ==
    \E s \in Sinks :
        /\ last.op = "signal" /\ last.s = s
        /\ pc[s] = "exited"
        /\ exitCond[s] = 1

\* C7 as stated: once a termination signal is available to the loop, the
\* loop begins no new message transmission.
C7_NoSendOnceSignalAvailable ==
    [][\A s \in Sinks :
        TermAvailable(s) => received'[s] = received[s]]_vars

\* C7 as amended: a loop that receives a termination signal exits in that
\* step, an exited loop takes no message and writes nothing, whatever is
\* queued, and a termination signal that is available leads to the loop
\* ending.
C7_NoSendAfterSignalReceived ==
    /\ [][\A s \in Sinks :
            /\ (SignalStep(s) /\ TermAvailable(s)) => pc'[s] = "exited"
            /\ pc[s] = "exited" =>
                /\ pc'[s] = "exited"
                /\ received'[s] = received[s]
                /\ wire'[s] = wire[s]
                /\ sink'[s].droppedEventCount = sink[s].droppedEventCount]_vars
    /\ \A s \in SinkIds :
            TermAvailable(s) ~> (pc[s] # "running" \/ crashed)

\* The loop has exited while Connected with a message still queued.
C7_Witness ==
    \E s \in Sinks :
        /\ pc[s] = "exited"
        /\ sink[s].connected
        /\ messages # <<>>
        /\ received[s] # <<>>

\* C8: no message is taken by two sinks reading the same channel, and a
\* message a sink has taken is no longer on the channel.
C8_SinksCompete ==
    /\ \A s1, s2 \in Sinks : \A i \in DOMAIN received[s1], j \in DOMAIN received[s2] :
            received[s1][i] = received[s2][j] => (s1 = s2 /\ i = j)
    /\ \A s \in Sinks : \A i \in DOMAIN received[s], j \in DOMAIN messages :
            received[s][i] # messages[j]

\* Two sinks share the channel and each has missed a message the other took.
C8_Witness ==
    /\ Cardinality(Sinks) >= 2
    /\ \E s1, s2 \in Sinks :
        /\ s1 # s2
        /\ received[s1] = <<MsgOf(2)>>
        /\ received[s2] = <<MsgOf(1)>>

\* C9: the snapshot a Statistics() call returns is, in all its fields, one
\* state the sink was in during the call with no transition under way.
C9_SnapshotNotTorn ==
    tpc["stat"] = "done" => stats \in seen

\* A call has returned a snapshot while the sink went through three states.
C9_Witness ==
    /\ tpc["stat"] = "done"
    /\ Cardinality(seen) >= 3
    /\ stats \in seen

\* C10: a connected sink holds an open socket and connectTime <= now.
C10_ConnectedHasValidSocket ==
    \A s \in Sinks :
        sink[s].connected =>
            sink[s].outputSocket = "open" /\ sink[s].connectTime <= now

\* C11: droppedEventCount never decreases: no step of any operation leaves
\* it smaller than it was.
C11_DropCounterMonotone ==
    [][\A s \in Sinks :
        sink'[s].droppedEventCount >= sink[s].droppedEventCount]_vars

\* A sink that dropped a message has reconnected and kept its count.
C11_Witness ==
    \E s \in Sinks :
        /\ sink[s].connected
        /\ sink[s].droppedEventCount >= 1
        /\ sink[s].droppedEventSinceConnection = sink[s].droppedEventCount
        /\ pc[s] = "running"

\* The step just taken was a call of Initialize on sink s from outside the
\* loop.
InitializeStep(s) == last'.op = "Initialize" /\ last'.s = s

\* C12: an Initialize whose dial fails returns an error after one dial and
\* leaves the sink Disconnected, and the message the loop takes next is
\* dropped and counted.
C12_FailedInitializeDisconnects ==
    [][\A s \in Sinks :
        /\ (InitializeStep(s) /\ last'.dials >= 1 /\ ~DialSucceeded(s)) =>
                /\ last'.err
                /\ last'.dials = 1
                /\ ~sink'[s].connected
        /\ (OutputStep(s) /\ last.op = "Initialize" /\ last.s = s /\ last.err) =>
                /\ sink'[s].droppedEventCount = sink[s].droppedEventCount + 1
                /\ wire'[s] = wire[s]]_vars

\* The step just taken was a call of Go on sink s.
GoStep(s) == last'.op = "Go" /\ last'.s = s

\* Initialize has succeeded on sink s at least once: markConnected, which
\* only a successful Initialize runs, has set connectTime (the clock starts
\* after the zero time).
EverConnected(s) == sink[s].connectTime # 0

\* C13 as stated: Go returns the error and starts no loop iff Initialize has
\* never succeeded on the sink.
C13_RunNeedsOneSuccess ==
    [][\A s \in Sinks :
        GoStep(s) =>
            /\ last'.err <=> ~EverConnected(s)
            /\ last'.err <=> pc'[s] # "running"]_vars

\* C13 as amended: Go returns the error and starts no loop iff the sink holds
\* no socket, which is so before any Initialize and after every Initialize
\* that returned an error, an earlier success notwithstanding; a sink on
\* which Initialize never succeeded gets the error.
C13_RunNeedsSocket ==
    [][\A s \in Sinks :
        /\ GoStep(s) =>
            /\ last'.err <=> sink[s].outputSocket = "nil"
            /\ last'.err => pc'[s] = "idle" /\ nextTick'[s] = nextTick[s]
            /\ ~last'.err => pc'[s] = "running"
            /\ ~EverConnected(s) => last'.err
        /\ (InitializeStep(s) /\ ~crashed') =>
            (last'.err <=> sink'[s].outputSocket = "nil")]_vars

\* Go has refused a sink on which Initialize had succeeded before.
C13_Witness ==
    \E s \in Sinks :
        /\ last.op = "Go" /\ last.s = s /\ last.err
        /\ sink[s].connectTime # 0
        /\ pc[s] = "idle"

\* C14: Initialize with a specification that has no colon returns an error:
\* it dials nothing, leaves the sink not Connected and its loop not started,
\* and the process lives on.
C14_NoColonIsAnError ==
    [][\A s \in Sinks :
        (InitializeStep(s) /\ IndexOf(sink'[s].netConn, ":") = 0) =>
            /\ last'.err
            /\ last'.dials = 0
            /\ ~sink'[s].connected
            /\ pc'[s] = pc[s]
            /\ ~crashed']_vars

\* C15: a signal other than SIGTERM and SIGINT that the loop receives leaves
\* the loop running, completion unsignalled and the sink as it was; the
\* signal is taken off the channel.
C15_OtherSignalIgnored ==
    [][\A s \in Sinks :
        (SignalStep(s) /\ Head(signals[s]) \notin {SIGTERM, SIGINT}) =>
            /\ pc'[s] = "running"
            /\ exitCond'[s] = exitCond[s]
            /\ exitCond'[s] = 0
            /\ sink'[s] = sink[s]
            /\ nextTick'[s] = nextTick[s]
            /\ wire'[s] = wire[s]
            /\ signals'[s] = Tail(signals[s])
            /\ ~crashed']_vars

\* The loop of a Connected sink has received a signal and runs on.
C15_Witness ==
    \E s \in Sinks :
        /\ last.op = "signal" /\ last.s = s
        /\ pc[s] = "running"
        /\ exitCond[s] = 0
        /\ sink[s].connected
        /\ signals[s] = <<>>

\* C16: sinks that differ in DryRun only and are given the same inputs are,
\* at every point, in the same state but for the flag; they have written
\* the same bytes, their loops are at the same place, and only the sink
\* that is not in a dry run has logged its failed writes.
C16_DryRunChangesLoggingOnly ==
    /\ \A s1, s2 \in Sinks :
        /\ [sink[s1] EXCEPT !.DryRun = sink[s2].DryRun] = sink[s2]
        /\ wire[s1] = wire[s2]
        /\ received[s1] = received[s2]
        /\ failed[s1] = failed[s2]
        /\ pc[s1] = pc[s2]
        /\ exitCond[s1] = exitCond[s2]
        /\ nextTick[s1] = nextTick[s2]
    /\ \A s \in Sinks :
        errlog[s] = IF sink[s].DryRun THEN 0 ELSE Cardinality(failed[s])

\* Both sinks lost a write, dropped a message and reconnected; one of them
\* logged the failure.
C16_Witness ==
    \E s1, s2 \in Sinks :
        /\ sink[s1].DryRun /\ ~sink[s2].DryRun
        /\ errlog[s1] = 0 /\ errlog[s2] = 1
        /\ failed[s1] = {MsgOf(1)} /\ failed[s2] = {MsgOf(1)}
        /\ sink[s1].droppedEventCount = 1 /\ sink[s2].droppedEventCount = 1
        /\ sink[s1].connected /\ sink[s2].connected

\* C17: after every Initialize that returns, the loop's own included,
\* addNewline is true iff the protocol of the specification it parsed is
\* stream-oriented.
C17_AddNewlineFollowsProtocol ==
    [][\A s \in Sinks :
        ((InitializeStep(s) \/ (TickStep(s) /\ last'.dials = 1)) /\ ~crashed') =>
            /\ sink'[s].protocolName = SplitN2(sink'[s].netConn, ":")[1]
            /\ sink'[s].addNewline <=> StreamOriented(sink'[s].protocolName)]_vars

\* C18: a periodic check dials only when the sink is Disconnected and now is
\* after reconnectTime; a check of a Connected sink, or one that comes no
\* later than reconnectTime, dials nothing and leaves the sink, what it
\* wrote and its loop as they were.
C18_CheckOnlyWhenDue ==
    [][\A s \in Sinks :
        TickStep(s) =>
            /\ last'.dials >= 1 =>
                (~sink[s].connected /\ now > sink[s].reconnectTime)
            /\ (sink[s].connected \/ now <= sink[s].reconnectTime) =>
                /\ last'.dials = 0
                /\ sink'[s] = sink[s]
                /\ wire'[s] = wire[s]
                /\ pc'[s] = "running"
                /\ ~crashed']_vars

\* A check came while the sink was Disconnected and its backoff was running.
C18_Witness ==
    \E s \in Sinks :
        /\ last.op = "tick" /\ last.s = s /\ last.dials = 0
        /\ ~sink[s].connected
        /\ now <= sink[s].reconnectTime
        /\ now > sink[s].reconnectTime - ReconnectDelay
        /\ pc[s] = "running"

\* C19: no thread is about to write a field of the sink while another is
\* about to read that field without holding the sink's lock.
C19_AccessesUnderLock ==
    \A t, u \in Threads :
        t # u => Writes(t) \cap UnlockedReads(u) = {}

\* C20: every message a loop has taken was written, or dropped and counted,
\* or lost in a failed write: received = written + droppedEventCount +
\* failed writes, the message of a failed write not being counted as dropped.
C20_EveryMessageAccounted ==
    \A s \in Sinks :
        Len(received[s])
            = Len(wire[s]) + sink[s].droppedEventCount + Cardinality(failed[s])

====
